---- MODULE Spec2Model ----
(***************************************************************************)
(* The interactive viewport of csvPlot.py (plot_csv_data): the scroll      *)
(* window (window_size, current_pos), the scroll slider, the visible X     *)
(* limits, the drag-selection state and the hover annotation, driven by    *)
(* the press, motion, release and slider callbacks the function registers, *)
(* and the load of the table that precedes them.                           *)
(*                                                                         *)
(* Numbers.  X data values and pointer X coordinates are integers; the     *)
(* data values are even, so that an odd pointer coordinate can lie exactly *)
(* half way between two data points.  A value the slider widget produces   *)
(* is a float: it is kept as an integer count of 1/Scale units, so that    *)
(* the widget's stepping (valstep=1) and update_view's int() are real      *)
(* conversions.  Y data values are multiples of PadDen, so that the 5%     *)
(* padding of the Y limits is exact.                                       *)
(***************************************************************************)
EXTENDS Integers, Sequences, FiniteSets, TLC

\* ------------------------------------------------------------- bounds
MaxN == 3       \* longest X column drawn freely
MaxX == 4       \* largest X data value / pointer coordinate drawn freely
Scale == 2      \* slider floats are counted in units of 1/Scale
MaxRaw == 6     \* largest raw slider position, in 1/Scale units
MaxSpacing == 3 \* largest --x-spacing drawn freely
HitTolerance == 1   \* a line's point is hit when the pointer is this near its X

\* --------------------------------------------------- program constants
InitialWindow == 50     \* min(50, n_points)
SliderValMin == 0       \* Slider(ax_scroll, 'Scroll Position', 0, max_scroll, ...)
SliderValStep == 1      \* valstep=1
PadDen == 20            \* the 0.05 of the Y padding, as 1/20
ButtonLeft == 1         \* event.button == 1
ButtonRight == 3        \* event.button == 3
DefaultXSpacing == 10   \* --x-spacing, default=10
SigDigits == 4          \* the .4g of the annotation text and the tick labels

VARIABLES
    x_data,         \* the X column (first CSV column), a sequence of length n_points
    y_bounds,       \* <<y_min, y_max>>: the global Y limits across all Y columns
    ylim,           \* the Y limits of the plot, <<bottom, top>>
    y_data,         \* the Y columns in declaration order: [name, values], one line each
    x_tick_spacing, \* the --x-spacing argument
    x_ticks,        \* the labelled X ticks: [indices, positions, labels]
    csv_file,       \* the file named on the command line
    outcome,        \* where the program is: [stage, message, exit_code]
    window_size,    \* number of points in the visible window
    current_pos,    \* index of the first visible point
    xlim,           \* the X limits of the plot, <<left, right>>
    slider_valmax,  \* scroll_slider.valmax
    slider_val,     \* scroll_slider.val, in 1/Scale units
    is_dragging,    \* a left press inside the plot has not been released yet
    start_x,        \* the anchor of the drag: None or Some(x)
    selection_rect, \* the rectangle the drag state refers to: None or Some(rect)
    ax_patches,     \* the rectangle patches that are on the plot, in order of addition
    annot,          \* the hover annotation: [visible, xy, text]
    failed,         \* history: a handler has raised an exception
    last_event,     \* history: the event handled last, with the drag state it met
    press_view      \* history: the view at the left press that began the pending drag

load_vars == <<x_data, y_bounds, ylim, y_data, x_tick_spacing, x_ticks, csv_file, outcome>>
view_vars == <<window_size, current_pos, xlim, slider_valmax, slider_val>>
drag_vars == <<is_dragging, start_x, selection_rect, ax_patches>>
vars == <<x_data, y_bounds, ylim, y_data, x_tick_spacing, x_ticks, csv_file, outcome,
          window_size, current_pos, xlim, slider_valmax, slider_val,
          is_dragging, start_x, selection_rect, ax_patches, annot, failed,
          last_event, press_view>>

\* ------------------------------------------------------------ helpers
None == <<>>
Some(v) == <<v>>

Min2(a, b) == IF a <= b THEN a ELSE b
Max2(a, b) == IF a >= b THEN a ELSE b
Abs(a) == IF a >= 0 THEN a ELSE -a

\* A Python int as the float the slider stores.
ToFloat(i) == i * Scale

\* Python's int() of a float: truncation toward zero.
IntOf(f) == IF f >= 0 THEN f \div Scale ELSE -((-f) \div Scale)

\* Python's round() of a float: to the nearest integer, a tie to the even one.
RoundHalfEven(f) ==
    LET q == f \div Scale
        r == f % Scale
    IN  IF 2 * r < Scale THEN q
        ELSE IF 2 * r > Scale THEN q + 1
        ELSE IF q % 2 = 0 THEN q ELSE q + 1

\* f"{v:.4g}" of an integer: v rounded to SigDigits significant digits, a tie
\* to the even one.
RECURSIVE Digits(_)
Digits(v) == IF v < 10 THEN 1 ELSE 1 + Digits(v \div 10)
RECURSIVE Pow10(_)
Pow10(k) == IF k = 0 THEN 1 ELSE 10 * Pow10(k - 1)
Fmt4g(v) ==
    LET a == Abs(v)
        unit == Pow10(Max2(0, Digits(a) - SigDigits))
        q == a \div unit
        r == a % unit
        m == IF 2 * r < unit THEN q
             ELSE IF 2 * r > unit THEN q + 1
             ELSE IF q % 2 = 0 THEN q ELSE q + 1
    IN  IF v >= 0 THEN m * unit ELSE -(m * unit)

\* ------------------------------------------------------ the loaded table
n_points == Len(x_data)

\* x_data.iloc[i], 0-based
x_iloc(i) == x_data[i + 1]

x_min == CHOOSE v \in {x_data[i] : i \in 1..n_points} :
            \A i \in 1..n_points : v <= x_data[i]
x_max == CHOOSE v \in {x_data[i] : i \in 1..n_points} :
            \A i \in 1..n_points : v >= x_data[i]

\* ax.set_ylim(y_min - 0.05 * y_range, y_max + 0.05 * y_range)
padded_ylim(y_min, y_max) ==
    LET y_range == y_max - y_min
    IN  <<y_min - y_range \div PadDen, y_max + y_range \div PadDen>>

\* df[col_name].iloc[i] of the k-th Y column, 0-based
y_iloc(k, i) == y_data[k].values[i + 1]

\* df.iloc[:, 1:].min().min() and .max().max(): the global Y limits
data_y_bounds(cols) ==
    LET vs == {cols[k].values[i] : k \in 1..Len(cols), i \in 1..Len(x_data)}
    IN  <<CHOOSE v \in vs : \A w \in vs : v <= w, CHOOSE v \in vs : \A w \in vs : v >= w>>

\* An index that .iloc accepts (no negative index is ever formed)
valid_index(i) == i \in 0..(n_points - 1)

\* list(range(0, n, s))
tick_range(n, s) == [k \in 1..((n + s - 1) \div s) |-> (k - 1) * s]

\* Mutant: the last point gets no tick of its own.
tick_indices_no_last(n, s) == tick_range(n, s)

\* tick_indices, with the last point appended when the range misses it
tick_indices(n, s) ==
    LET r == tick_range(n, s)
    IN  IF r[Len(r)] # n - 1 THEN Append(r, n - 1) ELSE r

\* ax.set_xticks(all_tick_positions); ax.set_xticklabels(all_tick_labels)
make_ticks(table, s) ==
    LET idx == tick_indices(Len(table), s)
    IN  [indices |-> idx,
         positions |-> [k \in 1..Len(idx) |-> table[idx[k] + 1]],
         labels |-> [k \in 1..Len(idx) |-> Fmt4g(table[idx[k] + 1])]]

initial_window == Min2(InitialWindow, n_points)

initial_xlim == <<x_iloc(0), x_iloc(Min2(initial_window - 1, n_points - 1))>>

\* Mutant: the slider's upper end is computed from the window size it replaces.
max_scroll_stale(ws) == Max2(0, n_points - window_size)

\* max(0, n_points - window_size): the slider's upper end for a window size
max_scroll(ws) == Max2(0, n_points - ws)

\* ------------------------------------------------------------ inputs
XValues == {v \in 0..MaxX : v % 2 = 0}
\* <<y_min, y_max>> of the Y columns
YBounds == {<<0, PadDen>>}

\* The Y columns of a table of n rows: up to two series that alternate between
\* the two Y bounds, out of step with each other.
SeriesNames == <<"y1", "y2">>
YColumn(k, n) == [i \in 1..n |-> IF (i + k) % 2 = 0 THEN PadDen ELSE 0]
YColumns(count, n) == [k \in 1..count |-> [name |-> SeriesNames[k], values |-> YColumn(k, n)]]

\* The 20-point series of the drag example, and a series longer than the
\* initial window.
ExampleTable == [i \in 1..20 |-> 2 * (i - 1)]
LongTable == [i \in 1..(InitialWindow + 2) |-> 2 * (i - 1)]

\* X columns: the short ones that ascend or descend (ties included), and the
\* two long ones.
NonDecreasing(t) == \A i \in 1..(Len(t) - 1) : t[i] <= t[i + 1]
Reversed(t) == [i \in 1..Len(t) |-> t[Len(t) + 1 - i]]
Tables ==
    {t \in UNION {[1..n -> XValues] : n \in 1..MaxN} :
        NonDecreasing(t) \/ NonDecreasing(Reversed(t))}
    \cup {ExampleTable, LongTable}

\* Pointer coordinates: every coordinate for a short column, the two ends of the
\* example drag for a long one; a pointer inside the plot is inside the visible
\* X limits.
\* The short columns that strictly ascend.
StrictTables ==
    {t \in Tables : Len(t) <= MaxN /\ \A i \in 1..(Len(t) - 1) : t[i] < t[i + 1]}

\* Files: a missing path, a file of no bytes, a file pandas cannot parse, and
\* files with a header row of 1 to 3 columns and the rows of a table (or none).
Files ==
    {[kind |-> k, x |-> <<>>, y |-> <<>>] : k \in {"missing", "empty", "malformed"}}
    \cup {[kind |-> "table", x |-> t, y |-> YColumns(c, Len(t))] :
            t \in StrictTables \cup {<<>>}, c \in 0..Len(SeriesNames)}

PointerXs == IF n_points <= MaxN THEN 0..MaxX ELSE {6, 18}
PointersInside == {c \in PointerXs : Min2(xlim[1], xlim[2]) <= c /\ c <= Max2(xlim[1], xlim[2])}

Buttons == {ButtonLeft, 2, ButtonRight}

\* Mouse events: inaxes says event.inaxes == ax; outside the plot xdata is not read.
\* on_motion and on_release do not read event.button (a release of any button
\* is handled alike): their events carry button 0.
InsideEvents(buttons) ==
    {[button |-> b, inaxes |-> TRUE, xdata |-> c] : b \in buttons, c \in PointersInside}
OutsideEvents(buttons) ==
    {[button |-> b, inaxes |-> FALSE, xdata |-> 0] : b \in buttons}
PressEvents == InsideEvents(Buttons) \cup OutsideEvents(Buttons)
\* A motion event also carries what line.contains(event) answers for each
\* line: hits[k] is ind["ind"] of the k-th line, empty when the line does not
\* contain the pointer.  The points a line can report are those within
\* HitTolerance of the pointer's X: it reports none of them, all of them, or
\* the last of them alone.
NoHits == [k \in 1..Len(y_data) |-> {}]
Near(c) == {i \in 0..(n_points - 1) : Abs(x_iloc(i) - c) <= HitTolerance}
HitSets(c) ==
    {{}, Near(c)} \cup {{i} : i \in {j \in Near(c) : \A m \in Near(c) : m <= j}}
HitLists(c) == [1..Len(y_data) -> HitSets(c)]
WithHits(e, h) == [button |-> e.button, inaxes |-> e.inaxes, xdata |-> e.xdata, hits |-> h]
\* Motion events away from every line
MotionEvents == {WithHits(e, NoHits) : e \in InsideEvents({0}) \cup OutsideEvents({0})}
\* Motion events anywhere, on the lines or off them
HoverEvents ==
    UNION {{WithHits(e, h) : h \in HitLists(e.xdata)} : e \in InsideEvents({0})}
    \cup {WithHits(e, NoHits) : e \in OutsideEvents({0})}
ReleaseEvents == InsideEvents({0}) \cup OutsideEvents({0})

\* Raw slider positions, in 1/Scale units: below the range, inside it, above it.
SliderRaw == (-1)..MaxRaw

\* The history record of an event: its kind and place, whether a drag was
\* pending when it arrived, and the path its handler took.
Ev(kind, event, path) ==
    [kind |-> kind, inaxes |-> event.inaxes,
     was_dragging |-> is_dragging, path |-> path]
NoEvent == [button |-> 0, inaxes |-> FALSE, xdata |-> 0]

TheView == [window_size |-> window_size, current_pos |-> current_pos, xlim |-> xlim,
            slider_valmax |-> slider_valmax, slider_val |-> slider_val]

\* ------------------------------------------------------ the slider widget
\* Mutant: the raw position is truncated, not rounded.
stepped_value_truncated(raw) == ToFloat(IntOf(raw))

\* Slider._stepped_value with valstep=1: valmin + round((val - valmin) / valstep) * valstep
stepped_value(raw) ==
    ToFloat(SliderValMin
            + RoundHalfEven((raw - ToFloat(SliderValMin)) \div SliderValStep) * SliderValStep)

\* Mutant: the widget does not clamp at its upper end.
value_in_bounds_unclamped(raw, valmax) ==
    LET val == stepped_value(raw)
    IN  IF val <= ToFloat(SliderValMin) THEN ToFloat(SliderValMin) ELSE val

\* Slider._value_in_bounds: step, then clamp into [valmin, valmax]
value_in_bounds(raw, valmax) ==
    LET val == stepped_value(raw)
    IN  IF val <= ToFloat(SliderValMin) THEN ToFloat(SliderValMin)
        ELSE IF val >= ToFloat(valmax) THEN ToFloat(valmax)
        ELSE val

\* ------------------------------------------------------------ update_view
\* current_pos = int(pos)
update_view_pos(pos) == IntOf(pos)

\* Mutant: the window's last index is one too far.
update_view_end_off_by_one(pos, ws) == Min2(IntOf(pos) + ws, n_points - 1)

\* end_idx = min(current_pos + window_size - 1, n_points - 1)
update_view_end(pos, ws) == Min2(update_view_pos(pos) + ws - 1, n_points - 1)

\* ax.set_xlim(x_data.iloc[start_idx], x_data.iloc[end_idx])
update_view_xlim(pos, ws) ==
    <<x_iloc(update_view_pos(pos)), x_iloc(update_view_end(pos, ws))>>

\* update_view reads x_data.iloc[start_idx] and x_data.iloc[end_idx]
update_view_ok(pos, ws) ==
    valid_index(update_view_pos(pos)) /\ valid_index(update_view_end(pos, ws))

\* ------------------------------------------------------------ on_press
\* Mutant: the reset keeps the window size it finds.
reset_window_size_kept == window_size

\* window_size = n_points
reset_window_size == n_points

\* Mutant: the reset goes back to the limits of the initial view.
reset_xlim_initial == initial_xlim

\* ax.set_xlim(x_min, x_max), after scroll_slider.set_val(0) has run update_view(0)
reset_xlim == <<x_min, x_max>>

\* Mutant: a right-click is ignored while a drag is pending.
press_reset_unless_dragging ==
    IF is_dragging
    THEN UNCHANGED view_vars
    ELSE /\ window_size' = reset_window_size
         /\ slider_valmax' = max_scroll(window_size')
         /\ slider_val' = ToFloat(0)
         /\ current_pos' = update_view_pos(slider_val')
         /\ xlim' = reset_xlim

\* The right-click branch: the window, the slider and the X limits are reset.
press_reset ==
    /\ window_size' = reset_window_size
    /\ slider_valmax' = max_scroll(window_size')
    /\ slider_val' = ToFloat(0)
    /\ current_pos' = update_view_pos(slider_val')
    /\ xlim' = reset_xlim

\* selection_rect.remove(): the patch leaves the plot
remove_patch(patches, rect) ==
    IF \E i \in 1..Len(patches) : patches[i] = rect
    THEN LET k == CHOOSE i \in 1..Len(patches) :
                    patches[i] = rect /\ \A j \in 1..(i - 1) : patches[j] # rect
         IN  SubSeq(patches, 1, k - 1) \o SubSeq(patches, k + 1, Len(patches))
    ELSE patches

\* Artist.remove() raises when the patch is no longer on the plot.
remove_fails(patches, rect) == ~\E i \in 1..Len(patches) : patches[i] = rect

\* on_press raises: the reset reads outside the X column, or the stale
\* rectangle is not on the plot.
press_fails(event) ==
    /\ event.inaxes
    /\ \/ /\ event.button = ButtonRight
          /\ ~update_view_ok(ToFloat(0), reset_window_size)
       \/ /\ event.button # ButtonRight /\ event.button = ButtonLeft
          /\ selection_rect # None
          /\ remove_fails(ax_patches, selection_rect[1])

on_press(event) ==
    /\ last_event' = Ev("press", event,
                        IF ~event.inaxes THEN "outside"
                        ELSE IF event.button = ButtonRight THEN "reset"
                        ELSE IF event.button = ButtonLeft THEN "begin"
                        ELSE "other")
    /\ IF ~event.inaxes
       THEN UNCHANGED <<view_vars, drag_vars, press_view>>
       ELSE IF event.button = ButtonRight
       THEN /\ press_reset
            /\ UNCHANGED <<drag_vars, press_view>>
       ELSE IF event.button = ButtonLeft
       THEN /\ start_x' = Some(event.xdata)
            /\ is_dragging' = TRUE
            /\ IF selection_rect # None
               THEN /\ ax_patches' = remove_patch(ax_patches, selection_rect[1])
                    /\ selection_rect' = None
               ELSE UNCHANGED <<ax_patches, selection_rect>>
            /\ press_view' = Some(TheView)
            /\ UNCHANGED view_vars
       ELSE UNCHANGED <<view_vars, drag_vars, press_view>>
    /\ failed' = (failed \/ press_fails(event))
    /\ UNCHANGED <<load_vars, annot>>

\* ------------------------------------------------------------ on_motion
\* Rectangle((rect_x, rect_y), rect_width, rect_height)
motion_rect(anchor, current_x) ==
    [x |-> Min2(anchor, current_x), width |-> Abs(current_x - anchor),
     y |-> ylim[1], height |-> ylim[2] - ylim[1]]

\* Mutant: the rectangle drawn before stays on the plot.
patches_without_selection_kept == ax_patches

\* if selection_rect: selection_rect.remove()
patches_without_selection ==
    IF selection_rect # None
    THEN remove_patch(ax_patches, selection_rect[1])
    ELSE ax_patches

\* Mutant: the preview already zooms the X limits to the rectangle.
motion_view_live(event) ==
    IF is_dragging /\ event.inaxes /\ start_x # None
    THEN /\ xlim' = <<Min2(start_x[1], event.xdata), Max2(start_x[1], event.xdata)>>
         /\ UNCHANGED <<window_size, current_pos, slider_valmax, slider_val>>
    ELSE UNCHANGED view_vars

\* on_motion declares only selection_rect nonlocal and calls neither
\* update_view nor the slider nor set_xlim.
motion_view(event) == UNCHANGED view_vars

\* on_motion raises: the rectangle to replace is not on the plot.
motion_fails(event) ==
    /\ is_dragging /\ event.inaxes /\ start_x # None
    /\ selection_rect # None
    /\ remove_fails(ax_patches, selection_rect[1])

on_motion(event) ==
    /\ last_event' = Ev("motion", event,
                        IF is_dragging /\ event.inaxes /\ start_x # None
                        THEN "preview" ELSE "none")
    /\ IF is_dragging /\ event.inaxes /\ start_x # None
       THEN /\ selection_rect' = Some(motion_rect(start_x[1], event.xdata))
            /\ ax_patches' = Append(patches_without_selection,
                                    motion_rect(start_x[1], event.xdata))
            /\ UNCHANGED <<is_dragging, start_x>>
       ELSE UNCHANGED drag_vars
    /\ motion_view(event)
    /\ UNCHANGED <<load_vars, press_view>>

\* ------------------------------------------------------------ on_release
\* Mutant: of the indices equally near, the last one is taken.
nearest_idx_last(x) ==
    CHOOSE i \in 0..(n_points - 1) :
        /\ \A j \in 0..(n_points - 1) : Abs(x_iloc(i) - x) <= Abs(x_iloc(j) - x)
        /\ \A j \in (i + 1)..(n_points - 1) : Abs(x_iloc(j) - x) > Abs(x_iloc(i) - x)

\* (x_data - x).abs().argmin(): the first index of the smallest distance, 0-based
nearest_idx(x) ==
    CHOOSE i \in 0..(n_points - 1) :
        /\ \A j \in 0..(n_points - 1) : Abs(x_iloc(i) - x) <= Abs(x_iloc(j) - x)
        /\ \A j \in 0..(i - 1) : Abs(x_iloc(j) - x) > Abs(x_iloc(i) - x)

left_idx(anchor, end_x) == nearest_idx(Min2(anchor, end_x))
right_idx(anchor, end_x) == nearest_idx(Max2(anchor, end_x))

\* Mutant: a selection of a single point zooms too.
selection_meaningful_single(l, r) == r - l >= 0

\* right_idx - left_idx >= 1
selection_meaningful(l, r) == r - l >= 1

\* Mutant: the window is one point too long.
zoom_window_size_off_by_one(l, r) == r - l + 2

\* window_size = right_idx - left_idx + 1
zoom_window_size(l, r) == r - l + 1

\* Mutant: the slider is put back to 0 on a zoom.
zoom_slider_val_zero(l, valmax) == ToFloat(0)

\* scroll_slider.set_val(min(current_pos, scroll_slider.valmax))
zoom_slider_val(l, valmax) == ToFloat(Min2(l, valmax))

\* ax.set_xlim(x_data.iloc[left_idx], x_data.iloc[right_idx])
zoom_xlim(l, r) == <<x_iloc(l), x_iloc(r)>>

\* Mutant: the early return forgets to end the drag.
ignored_release_is_dragging_kept == is_dragging

\* is_dragging = False, on the early return
ignored_release_is_dragging == FALSE

\* Mutant: the early return looks at the anchor, not at is_dragging.
release_ignored_anchor_only(event) == ~event.inaxes \/ start_x = None

\* if not is_dragging or event.inaxes != ax or start_x is None
release_ignored(event) == ~is_dragging \/ ~event.inaxes \/ start_x = None

\* on_release raises: the rectangle is not on the plot, or the zoom reads
\* outside the X column.
release_fails(event) ==
    /\ ~release_ignored(event)
    /\ LET l == left_idx(start_x[1], event.xdata)
           r == right_idx(start_x[1], event.xdata)
           ws == zoom_window_size(l, r)
       IN  \/ selection_rect # None /\ remove_fails(ax_patches, selection_rect[1])
           \/ /\ selection_meaningful(l, r)
              /\ \/ ~update_view_ok(zoom_slider_val(l, max_scroll(ws)), ws)
                 \/ ~valid_index(l)
                 \/ ~valid_index(r)

\* An event inside the plot always carries its xdata, so the return on
\* end_x is None is never taken.
on_release(event) ==
    /\ last_event' = Ev("release", event,
                        IF release_ignored(event)
                        THEN "ignored"
                        ELSE IF selection_meaningful(left_idx(start_x[1], event.xdata),
                                                     right_idx(start_x[1], event.xdata))
                        THEN "commit" ELSE "discard")
    /\ press_view' = None
    /\ IF release_ignored(event)
       THEN /\ is_dragging' = ignored_release_is_dragging
            /\ UNCHANGED <<view_vars, start_x, selection_rect, ax_patches>>
       ELSE LET l == left_idx(start_x[1], event.xdata)
                r == right_idx(start_x[1], event.xdata)
            IN  /\ is_dragging' = FALSE
                /\ IF selection_rect # None
                   THEN /\ ax_patches' = remove_patch(ax_patches, selection_rect[1])
                        /\ selection_rect' = None
                   ELSE UNCHANGED <<ax_patches, selection_rect>>
                /\ IF selection_meaningful(l, r)
                   THEN /\ window_size' = zoom_window_size(l, r)
                        /\ slider_valmax' = max_scroll(window_size')
                        /\ slider_val' = zoom_slider_val(l, slider_valmax')
                        /\ current_pos' = update_view_pos(slider_val')
                        /\ xlim' = zoom_xlim(l, r)
                   ELSE UNCHANGED view_vars
                /\ start_x' = None
    /\ failed' = (failed \/ release_fails(event))
    /\ UNCHANGED <<load_vars, annot>>

\* ------------------------------------------------------------ on_scroll
\* The slider is moved to the raw position `raw`: the widget steps and clamps
\* it and, unless the value is the one it holds, stores it and calls
\* on_scroll(val), which is update_view(val).  update_view stores current_pos
\* before it reads the X column: a read outside the column raises and leaves
\* the X limits as they were.
scroll_fails(raw) ==
    /\ value_in_bounds(raw, slider_valmax) # slider_val
    /\ ~update_view_ok(value_in_bounds(raw, slider_valmax), window_size)

on_scroll(raw) ==
    /\ last_event' = Ev("slider", NoEvent,
                        IF value_in_bounds(raw, slider_valmax) # slider_val
                        THEN "moved" ELSE "same")
    /\ LET val == value_in_bounds(raw, slider_valmax)
       IN  IF val # slider_val
           THEN /\ slider_val' = val
                /\ current_pos' = update_view_pos(val)
                /\ xlim' = IF update_view_ok(val, window_size)
                           THEN update_view_xlim(val, window_size)
                           ELSE xlim
                /\ UNCHANGED <<window_size, slider_valmax>>
           ELSE UNCHANGED view_vars
    /\ failed' = (failed \/ scroll_fails(raw))
    /\ UNCHANGED <<load_vars, drag_vars, press_view, annot>>

\* ------------------------------------------------------------ on_hover
\* Mutant: the last line that contains the pointer wins.
first_hit_series_last(hits) ==
    CHOOSE k \in 1..Len(hits) : hits[k] # {} /\ \A j \in (k + 1)..Len(hits) : hits[j] = {}

\* for line, col_name in zip(lines, y_columns): the first line that contains
\* the pointer
first_hit_series(hits) ==
    CHOOSE k \in 1..Len(hits) : hits[k] # {} /\ \A j \in 1..(k - 1) : hits[j] = {}

\* ind["ind"][0]: the lowest of the indices the line reports
first_hit_index(ind) == CHOOSE i \in ind : \A j \in ind : i <= j

\* annot.xy = (x_val, y_val)
hover_xy(k, index) == <<x_iloc(index), y_iloc(k, index)>>

\* f"{col_name}\n{x_label}: {x_val:.4g}\nY: {y_val:.4g}", as its three parts
hover_text(k, index) == <<y_data[k].name, Fmt4g(x_iloc(index)), Fmt4g(y_iloc(k, index))>>

\* annot.set_visible(False): the text and the anchor stay as they are
annot_hidden == [annot EXCEPT !.visible = FALSE]

\* on_hover raises: the index the line reports is outside the columns.
hover_fails(event) ==
    /\ event.inaxes /\ ~is_dragging
    /\ \E k \in 1..Len(event.hits) : event.hits[k] # {}
    /\ ~valid_index(first_hit_index(event.hits[first_hit_series(event.hits)]))

\* The annotation as on_hover leaves it
hover_annot(event) ==
    IF ~event.inaxes \/ is_dragging
    THEN annot_hidden
    ELSE IF \E k \in 1..Len(event.hits) : event.hits[k] # {}
    THEN LET k == first_hit_series(event.hits)
             index == first_hit_index(event.hits[k])
         IN  IF valid_index(index)
             THEN [visible |-> TRUE, xy |-> hover_xy(k, index),
                   text |-> hover_text(k, index)]
             ELSE annot
    ELSE annot_hidden

on_hover(event) == annot' = hover_annot(event)

\* A motion_notify_event: the canvas calls on_motion, then on_hover.
motion_notify(event) ==
    /\ on_motion(event)
    /\ on_hover(event)
    /\ failed' = (failed \/ motion_fails(event) \/ hover_fails(event))

\* ------------------------------------------------------------ the load
Stage(stage, message, exit_code) ==
    [stage |-> stage, message |-> message, exit_code |-> exit_code]

\* pd.read_csv(csv_file): the exception it raises, or "ok"
read_csv(file) ==
    IF file.kind = "missing" THEN "FileNotFoundError"
    ELSE IF file.kind = "empty" THEN "EmptyDataError"
    ELSE IF file.kind = "malformed" THEN "ParserError"
    ELSE "ok"

\* The way plot_csv_data leaves its try block.  A table without rows passes
\* read_csv and the column check; its limits are NaN, ax.set_ylim raises
\* ValueError on them, and except Exception catches that.
load_outcome(file) ==
    IF read_csv(file) = "FileNotFoundError" THEN Stage("exit", "file_not_found", 1)
    ELSE IF read_csv(file) = "EmptyDataError" THEN Stage("exit", "file_is_empty", 1)
    ELSE IF read_csv(file) # "ok" THEN Stage("exit", "error_reading", 1)
    ELSE IF 1 + Len(file.y) < 2 THEN Stage("exit", "at_least_2_columns", 1)
    ELSE IF Len(file.x) = 0 THEN Stage("exit", "error_reading", 1)
    ELSE Stage("shown", "", 0)

\* ax.annotate("", xy=(0,0), ...); annot.set_visible(False)
initial_annot == [visible |-> FALSE, xy |-> <<0, 0>>, text |-> <<"", 0, 0>>]

plot_csv_data ==
    /\ outcome.stage = "start"
    /\ outcome' = load_outcome(csv_file)
    /\ IF load_outcome(csv_file).stage = "shown"
       THEN /\ x_data' = csv_file.x
            /\ y_data' = csv_file.y
            /\ y_bounds' = data_y_bounds(y_data)'
            /\ ylim' = padded_ylim(y_bounds'[1], y_bounds'[2])
            /\ x_ticks' = make_ticks(x_data', x_tick_spacing)
            /\ window_size' = initial_window'
            /\ xlim' = initial_xlim'
            /\ slider_valmax' = max_scroll(window_size)'
       ELSE UNCHANGED <<x_data, y_data, y_bounds, ylim, x_ticks, window_size, xlim,
                        slider_valmax>>
    /\ current_pos' = 0
    /\ is_dragging' = FALSE
    /\ selection_rect' = None
    /\ start_x' = None
    /\ slider_val' = ToFloat(0)
    /\ annot' = initial_annot
    /\ last_event' = [kind |-> "load", inaxes |-> FALSE,
                      was_dragging |-> FALSE, path |-> "load"]
    /\ UNCHANGED <<x_tick_spacing, csv_file, ax_patches, failed, press_view>>

\* ------------------------------------------------------------ the machine
\* The chart as plt.show() first displays it, run with the default tick spacing.
Init ==
    /\ x_data \in Tables
    /\ y_data = YColumns(Len(SeriesNames), n_points)
    /\ y_bounds \in YBounds
    /\ y_bounds = data_y_bounds(y_data)
    /\ x_tick_spacing = DefaultXSpacing
    /\ x_ticks = make_ticks(x_data, x_tick_spacing)
    /\ csv_file = [kind |-> "table", x |-> x_data, y |-> y_data]
    /\ outcome = load_outcome(csv_file)
    /\ annot = initial_annot
    /\ failed = FALSE
    /\ ylim = padded_ylim(y_bounds[1], y_bounds[2])
    /\ window_size = initial_window
    /\ xlim = initial_xlim
    /\ current_pos = 0
    /\ is_dragging = FALSE
    /\ selection_rect = None
    /\ start_x = None
    /\ slider_valmax = max_scroll(window_size)
    /\ slider_val = ToFloat(0)
    /\ ax_patches = <<>>
    /\ last_event = [kind |-> "load", inaxes |-> FALSE,
                     was_dragging |-> FALSE, path |-> "load"]
    /\ press_view = None

\* The pointer stays away from the lines.
Next ==
    \/ \E event \in PressEvents : on_press(event)
    \/ \E event \in MotionEvents : motion_notify(event)
    \/ \E event \in ReleaseEvents : on_release(event)
    \/ \E raw \in SliderRaw : on_scroll(raw)

Spec == Init /\ [][Next]_vars

\* The pointer also passes over the lines; the X column is a short one that
\* strictly ascends.
InitHover == Init /\ x_data \in StrictTables

NextHover ==
    \/ \E event \in PressEvents : on_press(event)
    \/ \E event \in HoverEvents : motion_notify(event)
    \/ \E event \in ReleaseEvents : on_release(event)
    \/ \E raw \in SliderRaw : on_scroll(raw)

SpecHover == InitHover /\ [][NextHover]_vars

\* The program from its start: a file and a tick spacing are given, the table
\* is loaded, and the chart, if it is shown, takes the events of Next.
InitLoad ==
    /\ csv_file \in Files
    /\ x_tick_spacing \in 1..MaxSpacing
    /\ outcome = Stage("start", "", 0)
    /\ x_data = <<>>
    /\ y_data = <<>>
    /\ y_bounds = <<0, 0>>
    /\ ylim = <<0, 0>>
    /\ x_ticks = [indices |-> <<>>, positions |-> <<>>, labels |-> <<>>]
    /\ window_size = 0
    /\ xlim = <<0, 0>>
    /\ current_pos = 0
    /\ is_dragging = FALSE
    /\ selection_rect = None
    /\ start_x = None
    /\ slider_valmax = 0
    /\ slider_val = ToFloat(0)
    /\ ax_patches = <<>>
    /\ annot = initial_annot
    /\ failed = FALSE
    /\ last_event = [kind |-> "start", inaxes |-> FALSE,
                     was_dragging |-> FALSE, path |-> "start"]
    /\ press_view = None

NextLoad ==
    \/ plot_csv_data
    \/ outcome.stage = "shown" /\ Next

SpecLoad == InitLoad /\ [][NextLoad]_vars

\* ================================================================ claims

\* The events of a kind that the step being looked at can be the handling of.
StepInside(kind, buttons) ==
    IF last_event'.kind = kind /\ last_event'.inaxes THEN InsideEvents(buttons) ELSE {}
StepOutside(kind, buttons) ==
    IF last_event'.kind = kind /\ ~last_event'.inaxes THEN OutsideEvents(buttons) ELSE {}
StepSlider == IF last_event'.kind = "slider" THEN SliderRaw ELSE {}

\* Sorted ascending X data
XSorted == \A i \in 1..(n_points - 1) : x_data[i] <= x_data[i + 1]

Clamp(v, lo, hi) == IF v < lo THEN lo ELSE IF v > hi THEN hi ELSE v

\* The rectangle is one of the patches on the plot.
OnPlot(rect) == \E i \in 1..Len(ax_patches) : ax_patches[i] = rect

\* C1: in every reachable state the index window is valid: n >= 1,
\* 1 <= window_size <= n and 0 <= current_pos <= n - window_size.
C1_WindowValid ==
    /\ n_points >= 1
    /\ 1 <= window_size /\ window_size <= n_points
    /\ 0 <= current_pos /\ current_pos <= n_points - window_size
    /\ current_pos + window_size - 1 <= n_points - 1

\* C1 witness: a zoomed window (smaller than the table) that the slider has
\* scrolled away from the start.
C1_Witness ==
    /\ last_event.kind = "slider" /\ last_event.path = "moved"
    /\ window_size < n_points
    /\ current_pos > 0

\* C2: a release inside the plot that ends a drag whose endpoints snap to
\* indices left_idx and right_idx with right_idx - left_idx >= 1 gives
\* window_size = right_idx - left_idx + 1, current_pos = left_idx, slider
\* maximum = max(0, n - window_size), slider value = left_idx and X limits
\* (x[left_idx], x[right_idx]); indices [3,9] on 20 points give 7 and 3.
C2_DragCommit ==
    [][\A event \in StepInside("release", {0}) :
          (/\ is_dragging /\ start_x # None
           /\ on_release(event)
           /\ right_idx(start_x[1], event.xdata) - left_idx(start_x[1], event.xdata) >= 1)
          => LET l == left_idx(start_x[1], event.xdata)
                 r == right_idx(start_x[1], event.xdata)
             IN  /\ window_size' = r - l + 1
                 /\ current_pos' = l
                 /\ slider_valmax' = Max2(0, n_points - window_size')
                 /\ slider_val' = ToFloat(l)
                 /\ xlim' = <<x_iloc(l), x_iloc(r)>>
                 /\ (n_points = 20 /\ l = 3 /\ r = 9)
                      => (window_size' = 7 /\ current_pos' = 3)
      ]_vars

\* C2 witness: the committed drag over indices [3,9] of the 20-point series.
C2_Witness ==
    /\ last_event.kind = "release" /\ last_event.path = "commit"
    /\ n_points = 20
    /\ window_size = 7 /\ current_pos = 3
    /\ slider_valmax = 13 /\ slider_val = ToFloat(3)
    /\ xlim = <<x_iloc(3), x_iloc(9)>>

\* C3: a right-click press inside the plot, from any reachable state, gives
\* window_size = n, current_pos = 0, slider range [0, 0] and slider value 0.
C3_RightClickReset ==
    [][\A event \in StepInside("press", {ButtonRight}) :
          on_press(event)
          => /\ window_size' = n_points
             /\ current_pos' = 0
             /\ SliderValMin = 0
             /\ slider_valmax' = Max2(0, n_points - window_size')
             /\ slider_valmax' = 0
             /\ slider_val' = ToFloat(0)
      ]_vars

\* C3 witness: a reset that arrived after a left press made in a zoomed window
\* that was scrolled away from the start.
C3_Witness ==
    /\ last_event.kind = "press" /\ last_event.path = "reset"
    /\ press_view # None
    /\ press_view[1].window_size < n_points
    /\ press_view[1].current_pos > 0
    /\ window_size = n_points /\ current_pos = 0
    /\ slider_valmax = 0 /\ slider_val = ToFloat(0)

\* lim is <<lo, hi>> widened by 1/PadDen (5%) of hi - lo on both sides.
PaddedBy(lim, lo, hi) ==
    /\ PadDen * lim[1] = PadDen * lo - (hi - lo)
    /\ PadDen * lim[2] = PadDen * hi + (hi - lo)

\* C4 as claimed: after a right-click reset the visible window is the padded
\* full-data bounds, in X as in Y.
C4_ResetPadded ==
    [][\A event \in StepInside("press", {ButtonRight}) :
          on_press(event)
          => /\ PaddedBy(xlim', x_min, x_max)
             /\ PaddedBy(ylim', y_bounds[1], y_bounds[2])
      ]_vars

\* C4 as amended: after a right-click reset from any reachable state the
\* visible X limits are exactly the full X data bounds (x_min, x_max), without
\* padding; the Y limits are the padded Y bounds set at load, which no event
\* changes.
C4_ResetFullBounds ==
    [][/\ \A event \in StepInside("press", {ButtonRight}) :
             on_press(event)
             => /\ xlim' = <<x_min, x_max>>
                /\ \A i \in 1..n_points : xlim'[1] <= x_data[i] /\ x_data[i] <= xlim'[2]
                /\ \E i \in 1..n_points : xlim'[1] = x_data[i]
                /\ \E i \in 1..n_points : xlim'[2] = x_data[i]
                /\ PaddedBy(ylim', y_bounds[1], y_bounds[2])
       /\ ylim' = ylim
      ]_vars

\* C4 witness: a reset from a zoomed window whose limits were narrower than
\* the data's.
C4_Witness ==
    /\ last_event.kind = "press" /\ last_event.path = "reset"
    /\ press_view # None
    /\ press_view[1].xlim # <<x_min, x_max>>
    /\ x_min < x_max
    /\ xlim = <<x_min, x_max>>
    /\ ylim[1] < y_bounds[1] /\ ylim[2] > y_bounds[2]

\* C5 as claimed: a right-click press inside the plot or a slider change that
\* arrives while a drag is pending leaves the window, the slider, the X limits
\* and the drag state unchanged.
C5_IgnoredWhileDragging ==
    [][is_dragging
       => /\ \A event \in StepInside("press", {ButtonRight}) :
                on_press(event) => UNCHANGED <<view_vars, drag_vars>>
          /\ \A raw \in StepSlider :
                on_scroll(raw) => UNCHANGED <<view_vars, drag_vars>>
      ]_vars

\* C5 as amended: a right-click press inside the plot or a slider change that
\* arrives while a drag is pending leaves the drag state unchanged but is not
\* ignored: the right-click resets the view (window_size = n, current_pos = 0,
\* slider range [0, 0] and value 0, X limits the full X bounds) and the slider
\* change sets current_pos and the slider value to the rounded, clamped
\* position, leaving window_size and the slider range as they were.
C5_HandledWhileDragging ==
    [][is_dragging
       => /\ \A event \in StepInside("press", {ButtonRight}) :
                on_press(event)
                => /\ UNCHANGED drag_vars
                   /\ window_size' = n_points /\ current_pos' = 0
                   /\ slider_valmax' = 0 /\ slider_val' = ToFloat(0)
                   /\ xlim' = <<x_min, x_max>>
          /\ \A raw \in StepSlider :
                on_scroll(raw)
                => /\ UNCHANGED <<drag_vars, window_size, slider_valmax>>
                   /\ current_pos' = Clamp(RoundHalfEven(raw), 0, n_points - window_size)
                   /\ slider_val' = ToFloat(current_pos')
      ]_vars

\* C5 witness: a right-click that arrived during a drag with its rectangle
\* drawn, and changed the view the drag began in; the drag is still pending.
C5_Witness ==
    /\ last_event.kind = "press" /\ last_event.path = "reset"
    /\ last_event.was_dragging /\ is_dragging
    /\ selection_rect # None
    /\ press_view # None /\ press_view[1] # TheView

\* C6: after any button release that arrives while a drag is in progress, the
\* drag state is cleared (is_dragging false, anchor unset) and no selection
\* rectangle remains on the plot, wherever the release occurs.
C6_ReleaseClearsDrag ==
    [][is_dragging
       => \A event \in StepInside("release", {0}) \cup StepOutside("release", {0}) :
             on_release(event)
             => /\ ~is_dragging'
                /\ start_x' = None
                /\ selection_rect' = None
                /\ ax_patches' = <<>>
      ]_vars

\* C7 as claimed: once a motion event outside the axes occurs during a drag,
\* the drag is cleared without commit, so a release that follows it does not
\* change the view.
C7_MotionOutsideAbandons ==
    [][/\ is_dragging
          => \A event \in StepOutside("motion", {0}) :
                on_motion(event)
                => /\ ~is_dragging' /\ start_x' = None /\ selection_rect' = None
                   /\ UNCHANGED view_vars
       /\ (last_event.kind = "motion" /\ ~last_event.inaxes /\ last_event.was_dragging)
          => \A event \in StepInside("release", {0}) :
                on_release(event) => UNCHANGED view_vars
      ]_vars

\* C7 as amended: a motion event outside the axes during a drag changes neither
\* the drag state nor the view (the drag stays in progress); a drag is abandoned
\* when the button is released outside the axes: that release ends the drag
\* without commit, and from then on no release changes the view until a new
\* left press inside the plot begins a drag (is_dragging is set by nothing else).
C7_ReleaseOutsideAbandons ==
    [][/\ is_dragging
          => /\ \A event \in StepOutside("motion", {0}) :
                   on_motion(event) => UNCHANGED <<drag_vars, view_vars>>
             /\ \A event \in StepOutside("release", {0}) :
                   on_release(event) => ~is_dragging' /\ UNCHANGED view_vars
       /\ ~is_dragging
          => \A event \in StepInside("release", {0}) \cup StepOutside("release", {0}) :
                on_release(event) => ~is_dragging' /\ UNCHANGED view_vars
       /\ (~is_dragging /\ is_dragging')
          => \E event \in StepInside("press", {ButtonLeft}) : on_press(event)
      ]_vars

\* C7 witness: a drag with its rectangle drawn was ended by a release outside
\* the axes.
C7_Witness ==
    /\ last_event.kind = "release" /\ ~last_event.inaxes
    /\ last_event.was_dragging /\ ~is_dragging
    /\ start_x # None /\ selection_rect # None

\* C8 as claimed: when a drag is released inside the plot and
\* right_idx - left_idx < 1, the window, the slider and the X limits are what
\* they were before the press.
C8_DiscardRestoresPressView ==
    [][\A event \in StepInside("release", {0}) :
          (/\ is_dragging /\ start_x # None
           /\ on_release(event)
           /\ right_idx(start_x[1], event.xdata) - left_idx(start_x[1], event.xdata) < 1)
          => press_view # None /\ TheView' = press_view[1]
      ]_vars

\* C8 as amended: when a drag is released inside the plot and
\* right_idx - left_idx < 1, the selection is discarded: the window, the slider
\* and the X limits are what they were just before the release, and the handler
\* does nothing that fails (both indices are in 0..n-1, a rectangle it removes
\* is on the plot).
C8_DiscardKeepsView ==
    [][\A event \in StepInside("release", {0}) :
          (/\ is_dragging /\ start_x # None
           /\ on_release(event)
           /\ right_idx(start_x[1], event.xdata) - left_idx(start_x[1], event.xdata) < 1)
          => /\ UNCHANGED view_vars
             /\ left_idx(start_x[1], event.xdata) \in 0..(n_points - 1)
             /\ right_idx(start_x[1], event.xdata) \in 0..(n_points - 1)
             /\ selection_rect # None => OnPlot(selection_rect[1])
             /\ ~is_dragging' /\ start_x' = None /\ selection_rect' = None
      ]_vars

\* C8 witness: a discarded selection in a zoomed window, which is kept.
C8_Witness ==
    /\ last_event.kind = "release" /\ last_event.path = "discard"
    /\ last_event.inaxes /\ last_event.was_dragging
    /\ window_size < n_points
    /\ ~is_dragging /\ start_x = None

\* Handling the slider position `raw` in this state would change nothing.
Redelivered(raw) ==
    LET val == value_in_bounds(raw, slider_valmax)
    IN  /\ val = slider_val
        /\ update_view_pos(val) = current_pos
        /\ update_view_xlim(val, window_size) = xlim

C10_XlimMatchesWindow ==
    XSorted => xlim = <<x_iloc(current_pos), x_iloc(current_pos + window_size - 1)>>

\* C10 witness: a drag committed on strictly increasing data to a window that
\* starts after the first point and ends before the last.
C10_Witness ==
    /\ last_event.kind = "release" /\ last_event.path = "commit"
    /\ \A i \in 1..(n_points - 1) : x_data[i] < x_data[i + 1]
    /\ current_pos > 0
    /\ current_pos + window_size < n_points
    /\ xlim = <<x_iloc(current_pos), x_iloc(current_pos + window_size - 1)>>

\* C11: a motion event while a drag is pending is preview only: whatever it
\* does to the selection rectangle, it leaves window_size, current_pos, the
\* slider range and value, and the visible X limits unchanged.
C11_MotionPreviewOnly ==
    [][\A event \in StepInside("motion", {0}) \cup StepOutside("motion", {0}) :
          on_motion(event) /\ is_dragging =>
              /\ window_size' = window_size
              /\ current_pos' = current_pos
              /\ slider_valmax' = slider_valmax
              /\ slider_val' = slider_val
              /\ xlim' = xlim]_vars

\* C11 witness: a motion inside a zoomed plot has drawn a rectangle narrower
\* than the view, and the view is still the one of the press.
C11_Witness ==
    /\ last_event.kind = "motion" /\ last_event.path = "preview"
    /\ selection_rect # None
    /\ selection_rect[1].width > 0
    /\ selection_rect[1].width < Abs(xlim[2] - xlim[1])
    /\ window_size < n_points
    /\ press_view = Some(TheView)

\* C12: while a drag is active the hover annotation is suppressed: in every
\* reachable state in which is_dragging is true, the annotation is not visible.
C12_NoAnnotationWhileDragging == is_dragging => ~annot.visible

\* C13: once the chart is displayed no sequence of press, motion, release,
\* slider and hover events makes a handler fail: no handler has read the X
\* column or a Y series at an index outside 0..n-1 or removed a rectangle that
\* is not on the plot, the window's two ends are indices of the table, and the
\* rectangle the drag state refers to is on the plot, once.
C13_NoHandlerFails ==
    /\ ~failed
    /\ valid_index(current_pos)
    /\ valid_index(Min2(current_pos + window_size - 1, n_points - 1))
    /\ selection_rect # None =>
         Cardinality({i \in 1..Len(ax_patches) : ax_patches[i] = selection_rect[1]}) = 1

\* C13 witness: after a hover has read the columns at the last index, the
\* slider has been pushed to the far end of a zoomed window while a rectangle
\* of an unfinished drag is on the plot.
C13_Witness ==
    /\ ~failed
    /\ last_event.kind = "slider" /\ last_event.path = "moved"
    /\ window_size < n_points
    /\ slider_valmax > 0 /\ slider_val = ToFloat(slider_valmax)
    /\ annot.visible /\ annot.xy[1] = x_iloc(n_points - 1)
    /\ selection_rect # None

\* The lowest index a line reports
LowestHit(ind) == CHOOSE i \in ind : \A j \in ind : i <= j

\* C14: on a motion event inside the plot with no drag active, the annotation
\* shows the first series in declaration order whose line contains the pointer,
\* whether or not a later one contains it too, with that series' name and the
\* (x, y) of the first point the line reports, the text giving both to 4
\* significant digits; if no line contains the pointer it is hidden.  Stated
\* of what on_hover makes of every such event in every reachable state, and of
\* the annotation that is on show.
C14_HoverFirstSeries ==
    /\ ~is_dragging =>
         \A c \in PointersInside : \A h \in HitLists(c) :
            LET event == [button |-> 0, inaxes |-> TRUE, xdata |-> c, hits |-> h]
                shown == hover_annot(event)
            IN  IF \A k \in 1..Len(y_data) : h[k] = {}
                THEN ~shown.visible
                ELSE \E k \in 1..Len(y_data) :
                        /\ h[k] # {}
                        /\ \A j \in 1..(k - 1) : h[j] = {}
                        /\ shown.visible
                        /\ shown.text[1] = y_data[k].name
                        /\ shown.xy = <<x_data[LowestHit(h[k]) + 1],
                                        y_data[k].values[LowestHit(h[k]) + 1]>>
                        /\ shown.text[2] = Fmt4g(shown.xy[1])
                        /\ shown.text[3] = Fmt4g(shown.xy[2])
    /\ annot.visible =>
         \E k \in 1..Len(y_data) : \E i \in 0..(n_points - 1) :
            /\ annot.text[1] = y_data[k].name
            /\ annot.xy = <<x_iloc(i), y_iloc(k, i)>>
            /\ annot.text[2] = Fmt4g(x_iloc(i)) /\ annot.text[3] = Fmt4g(y_iloc(k, i))

\* C14 witness: the annotation shows the second point of the first series, in
\* a table where the second series has a point at the same X.
C14_Witness ==
    /\ last_event.kind = "motion" /\ last_event.inaxes /\ ~last_event.was_dragging
    /\ annot.visible
    /\ Len(y_data) > 1
    /\ annot.text[1] = y_data[1].name
    /\ n_points > 1
    /\ annot.xy = <<x_iloc(1), y_iloc(1, 1)>>

\* C15: every load failure ends in a terminal error outcome of its own class
\* with a non-zero exit and the chart never shown: a missing path gives the
\* FileNotFound message, a table with zero rows (a file of no bytes, or a
\* header of 2 or more columns with no row under it) gives the EmptyData
\* message, and a table with fewer than 2 columns gives the SchemaError
\* message.
C15_LoadFailureClasses ==
    outcome.stage # "start" =>
        /\ outcome.stage = "exit" => outcome.exit_code # 0
        /\ csv_file.kind = "missing" =>
             outcome.stage = "exit" /\ outcome.message = "file_not_found"
        /\ \/ csv_file.kind = "empty"
           \/ csv_file.kind = "table" /\ Len(csv_file.x) = 0 /\ 1 + Len(csv_file.y) >= 2
           => outcome.stage = "exit" /\ outcome.message = "file_is_empty"
        /\ csv_file.kind = "table" /\ 1 + Len(csv_file.y) < 2 =>
             outcome.stage = "exit" /\ outcome.message = "at_least_2_columns"

\* Index i is the snap of x: no index is nearer to x, and every lower index is
\* farther.
IsSnapOf(i, x) ==
    /\ i \in 0..(n_points - 1)
    /\ \A j \in 0..(n_points - 1) : Abs(x_data[j + 1] - x) >= Abs(x_data[i + 1] - x)
    /\ \A j \in 0..(n_points - 1) : Abs(x_data[j + 1] - x) = Abs(x_data[i + 1] - x) => i <= j

\* C16: on a release that ends a drag inside the plot, each endpoint is snapped
\* to the index whose X is nearest to it, the lowest of those equally near;
\* left_idx is the snap of min(anchor, end) and right_idx the snap of
\* max(anchor, end), and these are the indices the zoom commits.
C16_SnapNearestFirst ==
    [][\A event \in StepInside("release", {0}) :
          on_release(event) /\ is_dragging /\ start_x # None =>
              \E l, r \in 0..(n_points - 1) :
                  /\ IsSnapOf(l, Min2(start_x[1], event.xdata))
                  /\ IsSnapOf(r, Max2(start_x[1], event.xdata))
                  /\ left_idx(start_x[1], event.xdata) = l
                  /\ right_idx(start_x[1], event.xdata) = r
                  /\ r - l >= 1 =>
                       /\ current_pos' = l
                       /\ window_size' = r - l + 1
                       /\ xlim' = <<x_data[l + 1], x_data[r + 1]>>]_vars

\* C16 witness: a zoom has been committed whose right end stopped at the first
\* of two points with the same X.
C16_Witness ==
    /\ last_event.kind = "release" /\ last_event.path = "commit"
    /\ current_pos + window_size <= n_points - 1
    /\ x_iloc(current_pos + window_size - 1) = x_iloc(current_pos + window_size)
    /\ xlim = <<x_iloc(current_pos), x_iloc(current_pos + window_size - 1)>>

\* C17: a press or a release outside the plot area, and a release that arrives
\* when no drag is in progress (also after a drag that a release outside the
\* plot ended, whose anchor is still stored), leave window_size, current_pos,
\* the slider range and value, and the visible X limits unchanged.
C17_IgnoredEventsKeepView ==
    [][/\ \A event \in StepOutside("press", Buttons) :
             on_press(event) => UNCHANGED view_vars
       /\ \A event \in StepOutside("release", {0}) :
             on_release(event) => UNCHANGED view_vars
       /\ \A event \in StepInside("release", {0}) :
             on_release(event) /\ ~is_dragging => UNCHANGED view_vars]_vars

\* C17 witness: a release inside the plot found no drag in progress but the
\* anchor and the rectangle of a drag that a release outside had ended, far
\* enough from the pointer of this release for a zoom.
C17_Witness ==
    /\ last_event.kind = "release" /\ last_event.inaxes
    /\ ~last_event.was_dragging /\ last_event.path = "ignored"
    /\ start_x # None
    /\ selection_rect # None /\ selection_rect[1].width > 0
    /\ n_points > 1 /\ window_size = n_points

\* C18: in every reachable state the scroll slider agrees with the window:
\* its maximum is max(0, n - window_size) and its value is current_pos, after
\* initialisation, slider changes, drag commits and resets alike.
C18_SliderAgreesWithWindow ==
    /\ slider_valmax = (IF n_points - window_size > 0 THEN n_points - window_size ELSE 0)
    /\ slider_val = current_pos * Scale
    /\ IntOf(slider_val) = current_pos

\* C18 witness: a drag has committed a zoom that starts after the first point,
\* so that the slider was given a new range and a value other than 0.
C18_Witness ==
    /\ last_event.kind = "release" /\ last_event.path = "commit"
    /\ current_pos > 0
    /\ slider_valmax = n_points - window_size /\ slider_valmax >= current_pos
    /\ slider_val = ToFloat(current_pos)

\* At most one rectangle is on the plot, and it is the one selection_rect holds.
OneRectangle ==
    /\ Len(ax_patches) <= 1
    /\ selection_rect = None => ax_patches = <<>>
    /\ selection_rect # None => ax_patches = <<selection_rect[1]>>

\* C19: at most one selection rectangle is on the plot in any reachable state,
\* and it is the one the drag state refers to; after a motion event inside the
\* plot while dragging it spans [min(anchor_x, current_x), max(anchor_x,
\* current_x)] horizontally and the current Y limits vertically; and a left
\* press inside the plot removes any rectangle left over from an earlier drag.
C19_SingleRectangle ==
    [][/\ OneRectangle /\ OneRectangle'
       /\ \A event \in StepInside("motion", {0}) :
             on_motion(event) /\ is_dragging =>
                 /\ selection_rect' # None
                 /\ selection_rect'[1].x = Min2(start_x[1], event.xdata)
                 /\ selection_rect'[1].x + selection_rect'[1].width
                        = Max2(start_x[1], event.xdata)
                 /\ selection_rect'[1].y = ylim[1]
                 /\ selection_rect'[1].y + selection_rect'[1].height = ylim[2]
       /\ \A event \in StepInside("press", {ButtonLeft}) :
             on_press(event) => selection_rect' = None /\ ax_patches' = <<>>]_vars

\* C19 witness: a second motion of one drag has replaced the rectangle by one
\* that runs from the pointer, left of the anchor, to the anchor.
C19_Witness ==
    /\ last_event.kind = "motion" /\ last_event.path = "preview"
    /\ is_dragging /\ start_x # None /\ selection_rect # None
    /\ Len(ax_patches) = 1 /\ ax_patches[1] = selection_rect[1]
    /\ selection_rect[1].x < start_x[1]
    /\ selection_rect[1].x + selection_rect[1].width = start_x[1]
    /\ selection_rect[1].y = ylim[1] /\ selection_rect[1].height = ylim[2] - ylim[1]
    /\ selection_rect[1].height > 0

\* C20: for n >= 1 points and X tick spacing s >= 1, the labelled X tick
\* indices are exactly the multiples of s below n together with the last index
\* n-1, strictly increasing with no duplicate, each tick carrying the X value
\* at its index; they are what they were at load in every state that slider,
\* drag and reset events lead to.
C20_TicksFixed ==
    outcome.stage = "shown" =>
        LET idx == x_ticks.indices
        IN  /\ n_points >= 1 /\ x_tick_spacing >= 1
            /\ {idx[k] : k \in 1..Len(idx)} =
                   {i \in 0..(n_points - 1) : i % x_tick_spacing = 0} \cup {n_points - 1}
            /\ \A k \in 1..(Len(idx) - 1) : idx[k] < idx[k + 1]
            /\ Len(x_ticks.positions) = Len(idx)
            /\ \A k \in 1..Len(idx) : x_ticks.positions[k] = x_data[idx[k] + 1]

\* C20 witness: the last index is no multiple of the spacing and has a tick all
\* the same, after a drag has zoomed the window.
C20_Witness ==
    /\ outcome.stage = "shown"
    /\ last_event.kind = "release" /\ last_event.path = "commit"
    /\ window_size < n_points
    /\ x_tick_spacing > 1
    /\ (n_points - 1) % x_tick_spacing # 0
    /\ x_ticks.indices[Len(x_ticks.indices)] = n_points - 1
    /\ Len(x_ticks.indices) > 1

====
